---- MODULE Spec2Model ----
(***************************************************************************)
(* INVASE (src/INVASE.py): the INVASE object, its training loop over the   *)
(* selector, predictor and baseline networks, the mask sampler, the        *)
(* selector's custom loss, the two inference methods and the entry point.  *)
(*                                                                         *)
(* The Keras networks are library objects: a network is its number of      *)
(* builds and of gradient updates, and predict() returns any matrix of the *)
(* output layer's range.  Probabilities are fixed-point: selector outputs  *)
(* in halves (0, 1/2, 1), class probabilities in eighths; logarithms are   *)
(* natural logarithms in thousandths.                                      *)
(* Library calls (Multiply, np.concatenate, np.random.*, tf.log) are taken *)
(* at their documented meaning.                                            *)
(***************************************************************************)
EXTENDS Integers, Sequences, FiniteSets, TLC

\* ------------------------------------------------------------------ bounds
MaxRows  == 2   \* rows of a small data set
MaxDim   == 2   \* feature columns d
MaxEpoch == 2   \* largest n_epoch (0, 1 and this many steps are run)
MaxTarget == 16 \* train() is explored for composite targets of at most this many entries

\* ------------------------------------------------------- program constants
BatchCap   == 1000   \* min(1000, ...)
LogEvery   == 100    \* epoch % 100
TauMilli   == 100    \* tau = 0.1, in thousandths
LnEpsMilli == -18421 \* ln(0 + 1e-8), in thousandths
NClass     == 2      \* output units of predictor / baseline

Scale == 1000         \* thousandths

SelOne   == 2         \* selector probability 1, in halves
ClassOne == 8         \* class probability 1, in eighths
SelLevels   == {0, 1, 2}      \* sigmoid outputs 0, 1/2, 1
PredLevels  == {2, 4}         \* predictor: softmax outputs 1/4, 1/2 for the first class
BaseLevels  == {4, 6}         \* baseline: softmax outputs 1/2, 3/4 for the first class
AltLevels   == {1, 2, 4}      \* 1/8, 1/4, 1/2: perturbed class probabilities
BigRows     == {999, 1000, 1001}

None == <<>>

VARIABLES
  pc,                  \* position of the single thread
  caller,              \* "main" (the __main__ block) or "api" (a direct user)
  method,              \* the method of INVASE the caller entered last
  err,                 \* uncaught exception, "none" if there is none
  ctor_rows,           \* x_train.shape[0] as given to __init__
  attrs,               \* attribute names set on the object
  is_logging_enabled, batch_size, epochs, input_shape,
  selector, predictor, baseline,   \* [built, updates]
  x_train, y_train,    \* arguments of train()
  epoch, idx, x_batch, y_batch,
  sel_prob, sel_mask, sel_feat, dis_prob, val_prob, y_batch_final, g_loss,
  calls,               \* calls made on the networks / sampler in this step
  stdout,              \* printed progress lines
  ret                  \* value returned by the last inference call

obj    == <<attrs, is_logging_enabled, batch_size, epochs, input_shape>>
nets   == <<selector, predictor, baseline>>
args   == <<x_train, y_train>>
locals == <<idx, x_batch, y_batch, sel_prob, sel_mask, sel_feat, dis_prob,
            val_prob, y_batch_final, g_loss>>
vars   == <<pc, caller, method, err, ctor_rows, obj, nets, args, epoch, locals,
            calls, stdout, ret>>

\* ----------------------------------------------------------------- helpers
\* Faulty variant: the batch size is not clamped to the data set.
Min_NoClamp(a, b) == a

Min(a, b) == IF a < b THEN a ELSE b

RECURSIVE SumSeq(_)
SumSeq(s) == IF s = <<>> THEN 0 ELSE Head(s) + SumSeq(Tail(s))

Matrices(n, d, S) == [1..n -> [1..d -> S]]

\* one-hot label rows
OneHot(c) == [k \in 1..NClass |-> IF k = c THEN 1 ELSE 0]

\* The data set of a given shape: entries are distinct and non-zero, so that
\* every row and column is identifiable after indexing and masking.
Features(n, d) == [i \in 1..n |-> [j \in 1..d |-> (i - 1) * d + j]]
Labels(n)      == [i \in 1..n |-> OneHot(((i - 1) % NClass) + 1)]

\* x[idx, :] with zero-based row indices
Gather(m, ix) == [i \in 1..Len(ix) |-> m[ix[i] + 1]]

\* softmax row whose first class has probability k/8
ClassRow(k) == <<k, ClassOne - k>>

Net0 == [built |-> 0, updates |-> 0]

\* ------------------------------------------------------------ construction
\* Parameters of __init__ without a default value (line 36).
RequiredParams == {"x_train", "data_type", "n_epoch"}

\* Keyword names the two callers of INVASE(...) bind: the __main__ block
\* (line 240) passes two positional arguments, a direct user passes them all.
SuppliedParams(c) ==
  IF c = "main" THEN {"x_train", "data_type"}
  ELSE {"x_train", "data_type", "n_epoch", "is_logging_enabled"}

\* Attributes __init__ assigns to self (lines 37-64).
InitAttrs == {"is_logging_enabled", "batch_size", "epochs", "tau",
              "input_shape", "activation", "predictor", "selector", "baseline"}

Build(net) == [built |-> net.built + 1, updates |-> 0]

\* Faulty variant: a draw that ignores the degenerate probabilities.
Binomial_Any(p) == {0, 1}

\* np.random.binomial(1, p): the values a draw with success probability p/2
\* can take.
Binomial(p) == IF p = 0 THEN {0} ELSE IF p = SelOne THEN {1} ELSE {0, 1}

\* Sample_M: the masks np.random.binomial(1, gen_prob, (n, d)) can return.
Sample_M(gen_prob) ==
  LET n == Len(gen_prob)
      d == Len(gen_prob[1])
  IN  {m \in Matrices(n, d, {0, 1}) :
         \A i \in 1..n : \A j \in 1..d : m[i][j] \in Binomial(gen_prob[i][j])}

\* Multiply()([a, b]): element-wise product.
Multiply(a, b) == [i \in 1..Len(a) |-> [j \in 1..Len(a[i]) |-> a[i][j] * b[i][j]]]

\* Faulty variant: baseline and predictor outputs in the other order.
Concatenate_Swapped(sp, dp, vp, yb) ==
  [i \in 1..Len(sp) |-> sp[i] \o vp[i] \o dp[i] \o yb[i]]

\* np.concatenate((sel_prob, dis_prob, val_prob, y_batch), axis = 1)
Concatenate(sp, dp, vp, yb) == [i \in 1..Len(sp) |-> sp[i] \o dp[i] \o vp[i] \o yb[i]]

\* ------------------------------------------------------------ selector loss
\* log(p + 1e-8) in thousandths, p a selector probability in halves
LnSel(k) == CASE k = 0 -> LnEpsMilli [] k = 1 -> -693 [] k = 2 -> 0

\* log(p + 1e-8) in thousandths, p a class probability in eighths
LnClass(k) == CASE k = 0 -> LnEpsMilli [] k = 1 -> -2079 [] k = 2 -> -1386
                [] k = 3 -> -981 [] k = 4 -> -693 [] k = 5 -> -470
                [] k = 6 -> -288 [] k = 7 -> -134 [] k = 8 -> 0

\* the four slices my_loss takes of a row of y_true
SplitRow(row, d) ==
  [sel_prob |-> SubSeq(row, 1, d),
   dis_prob |-> SubSeq(row, d + 1, d + 2),
   val_prob |-> SubSeq(row, d + 3, d + 4),
   y_final  |-> SubSeq(row, d + 5, Len(row))]

\* tf.reduce_sum(y_final * tf.log(prob + 1e-8), axis = 1), one row
Reward(y_final, prob) ==
  SumSeq([c \in 1..Len(prob) |-> y_final[c] * LnClass(prob[c])])

\* Faulty variant: the predictor's reward alone scales the log-likelihood.
Loss1_NoBaseline(row, p) ==
  LET d  == Len(p)
      s  == SplitRow(row, d)
      Reward1 == Reward(s.y_final, s.dis_prob)
      ll == SumSeq([j \in 1..d |->
                 s.sel_prob[j] * LnSel(p[j])
               + (SelOne - s.sel_prob[j]) * LnSel(SelOne - p[j])])
  IN  Reward1 * ll - ((TauMilli * Scale * SumSeq(p)) \div d)

\* loss1 of one row, in units of 1 / (2 * Scale * Scale)
Loss1(row, p) ==
  LET d  == Len(p)
      s  == SplitRow(row, d)
      Reward1 == Reward(s.y_final, s.dis_prob)
      Reward2 == Reward(s.y_final, s.val_prob)
      Rew     == Reward1 - Reward2
      ll == SumSeq([j \in 1..d |->
                 s.sel_prob[j] * LnSel(p[j])
               + (SelOne - s.sel_prob[j]) * LnSel(SelOne - p[j])])
  IN  Rew * ll - ((TauMilli * Scale * SumSeq(p)) \div d)

my_loss(y_true, y_pred) ==
  SumSeq([i \in 1..Len(y_pred) |-> -Loss1(y_true[i], y_pred[i])]) \div Len(y_pred)

\* --------------------------------------------------------------- the state
Init ==
  /\ pc = "start" /\ caller = "none" /\ method = "none" /\ err = "none"
  /\ ctor_rows = 0
  /\ attrs = {}
  /\ is_logging_enabled = FALSE /\ batch_size = 0 /\ epochs = 0 /\ input_shape = 0
  /\ selector = Net0 /\ predictor = Net0 /\ baseline = Net0
  /\ x_train = None /\ y_train = None
  /\ epoch = -1
  /\ idx = None /\ x_batch = None /\ y_batch = None
  /\ sel_prob = None /\ sel_mask = None /\ sel_feat = None
  /\ dis_prob = None /\ val_prob = None /\ y_batch_final = None /\ g_loss = 0
  /\ calls = <<>> /\ stdout = <<>> /\ ret = None

Raise(e) == pc' = "raised" /\ err' = e

\* INVASE(...): binding of the arguments, then the body of __init__.
\* c: the caller; n0, d: shape of its x_train; ne: n_epoch; log: the flag.
Construct(c, n0, d, ne, log) ==
  /\ pc = "start"
  /\ caller' = c /\ method' = "__init__"
  /\ ctor_rows' = n0
  /\ IF RequiredParams \subseteq SuppliedParams(c)
     THEN /\ is_logging_enabled' = log
          /\ batch_size' = Min(BatchCap, n0)
          /\ epochs' = ne
          /\ input_shape' = d
          /\ predictor' = Build(predictor)
          /\ selector' = Build(selector)
          /\ baseline' = Build(baseline)
          /\ attrs' = InitAttrs
          /\ pc' = "constructed" /\ UNCHANGED err
     ELSE /\ Raise("TypeError")
          /\ UNCHANGED <<obj, nets>>
  /\ UNCHANGED <<args, epoch, locals, calls, stdout, ret>>

\* train(x_train, y_train) is entered (line 142).
TrainCall(n) ==
  /\ pc = "constructed"
  /\ batch_size * (input_shape + 3 * NClass) <= MaxTarget
  /\ x_train' = Features(n, input_shape)
  /\ y_train' = Labels(n)
  /\ pc' = "loop" /\ method' = "train"
  /\ UNCHANGED <<caller, err, ctor_rows, obj, nets, epoch, locals, calls, stdout, ret>>

\* Faulty variant: the loop runs one iteration too many.
LoopHead_OffByOne ==
  /\ pc = "loop"
  /\ IF epoch + 1 <= epochs
     THEN /\ epoch' = epoch + 1
          /\ pc' = "batch"
          /\ idx' = None /\ x_batch' = None /\ y_batch' = None
          /\ sel_prob' = None /\ sel_mask' = None /\ sel_feat' = None
          /\ dis_prob' = None /\ val_prob' = None /\ y_batch_final' = None
          /\ g_loss' = 0
          /\ calls' = <<>>
     ELSE /\ pc' = "trained"
          /\ idx' = None /\ x_batch' = None /\ y_batch' = None
          /\ sel_prob' = None /\ sel_mask' = None /\ sel_feat' = None
          /\ dis_prob' = None /\ val_prob' = None /\ y_batch_final' = None
          /\ g_loss' = 0
          /\ calls' = <<>>
          /\ UNCHANGED epoch
  /\ UNCHANGED <<caller, method, err, ctor_rows, obj, nets, args, stdout, ret>>

\* for epoch in range(self.epochs) (line 145).  The locals of the previous
\* iteration are dead here: each is assigned again before it is read; when
\* the loop ends train() returns and its frame is dropped.
LoopHead ==
  /\ pc = "loop"
  /\ IF epoch + 1 < epochs
     THEN /\ epoch' = epoch + 1
          /\ pc' = "batch"
          /\ idx' = None /\ x_batch' = None /\ y_batch' = None
          /\ sel_prob' = None /\ sel_mask' = None /\ sel_feat' = None
          /\ dis_prob' = None /\ val_prob' = None /\ y_batch_final' = None
          /\ g_loss' = 0
          /\ calls' = <<>>
     ELSE /\ pc' = "trained"
          /\ idx' = None /\ x_batch' = None /\ y_batch' = None
          /\ sel_prob' = None /\ sel_mask' = None /\ sel_feat' = None
          /\ dis_prob' = None /\ val_prob' = None /\ y_batch_final' = None
          /\ g_loss' = 0
          /\ calls' = <<>>
          /\ UNCHANGED epoch
  /\ UNCHANGED <<caller, method, err, ctor_rows, obj, nets, args, stdout, ret>>

\* lines 149-151
SelectBatch ==
  /\ pc = "batch"
  /\ \E ix \in [1..batch_size -> 0..(Len(x_train) - 1)] :
       /\ idx' = ix
       /\ x_batch' = Gather(x_train, ix)
       /\ y_batch' = Gather(y_train, ix)
  /\ pc' = "sel_predict"
  /\ UNCHANGED <<caller, method, err, ctor_rows, obj, nets, args, epoch, sel_prob, sel_mask,
                 sel_feat, dis_prob, val_prob, y_batch_final, g_loss, calls, stdout, ret>>

Call(net, op, x, y, out) ==
  [net |-> net, op |-> op, x |-> x, y |-> y, out |-> out,
   ver |-> CASE net = "selector"  -> selector.updates
             [] net = "predictor" -> predictor.updates
             [] net = "baseline"  -> baseline.updates
             [] OTHER -> 0]

Update(net) == [net EXCEPT !.updates = @ + 1]

\* line 154
QuerySelector ==
  /\ pc = "sel_predict"
  /\ \E p \in Matrices(batch_size, input_shape, SelLevels) :
       /\ sel_prob' = p
       /\ calls' = Append(calls, Call("selector", "predict", x_batch, None, p))
  /\ pc' = "sample"
  /\ UNCHANGED <<caller, method, err, ctor_rows, obj, nets, args, epoch, idx, x_batch, y_batch,
                 sel_mask, sel_feat, dis_prob, val_prob, y_batch_final, g_loss,
                 stdout, ret>>

\* lines 157-158
SampleMask ==
  /\ pc = "sample"
  /\ \E m \in Sample_M(sel_prob) :
       /\ sel_mask' = m
       /\ sel_feat' = Multiply(x_batch, m)
       /\ calls' = Append(calls, Call("sampler", "Sample_M", sel_prob, None, m))
  /\ pc' = "dis_predict"
  /\ UNCHANGED <<caller, method, err, ctor_rows, obj, nets, args, epoch, idx, x_batch, y_batch,
                 sel_prob, dis_prob, val_prob, y_batch_final, g_loss, stdout, ret>>

\* line 161
QueryPredictor ==
  /\ pc = "dis_predict"
  /\ \E p \in [1..batch_size -> {ClassRow(k) : k \in PredLevels}] :
       /\ dis_prob' = p
       /\ calls' = Append(calls, Call("predictor", "predict", sel_feat, None, p))
  /\ pc' = "dis_train"
  /\ UNCHANGED <<caller, method, err, ctor_rows, obj, nets, args, epoch, idx, x_batch, y_batch,
                 sel_prob, sel_mask, sel_feat, val_prob, y_batch_final, g_loss,
                 stdout, ret>>

\* Faulty variant: the predictor is queried again after its update.
TrainPredictor_Requery ==
  /\ pc = "dis_train"
  /\ predictor' = Update(predictor)
  /\ \E p \in [1..batch_size -> {ClassRow(k) : k \in PredLevels}] :
       /\ dis_prob' = p
       /\ calls' = calls \o
            <<Call("predictor", "train_on_batch", sel_feat, y_batch, None),
              [Call("predictor", "predict", sel_feat, None, p)
                 EXCEPT !.ver = predictor.updates + 1]>>
  /\ pc' = "val_predict"
  /\ UNCHANGED <<caller, method, err, ctor_rows, obj, selector, baseline, args, epoch,
                 idx, x_batch, y_batch, sel_prob, sel_mask, sel_feat, val_prob,
                 y_batch_final, g_loss, stdout, ret>>

\* line 164
TrainPredictor ==
  /\ pc = "dis_train"
  /\ predictor' = Update(predictor)
  /\ calls' = Append(calls, Call("predictor", "train_on_batch", sel_feat, y_batch, None))
  /\ pc' = "val_predict"
  /\ UNCHANGED <<caller, method, err, ctor_rows, obj, selector, baseline, args, epoch, locals,
                 stdout, ret>>

\* line 169
QueryBaseline ==
  /\ pc = "val_predict"
  /\ \E p \in [1..batch_size -> {ClassRow(k) : k \in BaseLevels}] :
       /\ val_prob' = p
       /\ calls' = Append(calls, Call("baseline", "predict", x_batch, None, p))
  /\ pc' = "val_train"
  /\ UNCHANGED <<caller, method, err, ctor_rows, obj, nets, args, epoch, idx, x_batch, y_batch,
                 sel_prob, sel_mask, sel_feat, dis_prob, y_batch_final, g_loss,
                 stdout, ret>>

\* Faulty variant: the baseline is updated on the masked batch.
TrainBaseline_Masked ==
  /\ pc = "val_train"
  /\ baseline' = Update(baseline)
  /\ calls' = Append(calls, Call("baseline", "train_on_batch", sel_feat, y_batch, None))
  /\ pc' = "sel_train"
  /\ UNCHANGED <<caller, method, err, ctor_rows, obj, selector, predictor, args, epoch,
                 locals, stdout, ret>>

\* line 172
TrainBaseline ==
  /\ pc = "val_train"
  /\ baseline' = Update(baseline)
  /\ calls' = Append(calls, Call("baseline", "train_on_batch", x_batch, y_batch, None))
  /\ pc' = "sel_train"
  /\ UNCHANGED <<caller, method, err, ctor_rows, obj, selector, predictor, args, epoch, locals,
                 stdout, ret>>

\* lines 176-179.  The selector's weights have not changed since line 154,
\* so the y_pred its loss sees on x_batch is sel_prob.
TrainSelector ==
  /\ pc = "sel_train"
  /\ LET t == Concatenate(sel_prob, dis_prob, val_prob, y_batch)
     IN  /\ y_batch_final' = t
         /\ g_loss' = my_loss(t, sel_prob)
         /\ calls' = Append(calls, Call("selector", "train_on_batch", x_batch, t, None))
  /\ selector' = Update(selector)
  /\ pc' = "progress"
  /\ UNCHANGED <<caller, method, err, ctor_rows, obj, predictor, baseline, args, epoch, idx,
                 x_batch, y_batch, sel_prob, sel_mask, sel_feat, dis_prob, val_prob,
                 stdout, ret>>

\* lines 182-185
Progress ==
  /\ pc = "progress"
  /\ stdout' = IF epoch % LogEvery = 0
               THEN Append(stdout, epoch)
               ELSE stdout
  /\ pc' = "loop"
  /\ UNCHANGED <<caller, method, err, ctor_rows, obj, nets, args, epoch, locals, calls, ret>>

\* self.<name>: attribute lookup on the object
HasAttr(name) == name \in attrs

\* output(x_train), lines 188-192; n: rows of its argument
Output(n) ==
  /\ pc \in {"constructed", "trained"}
  /\ IF HasAttr("generator")
     THEN /\ \E p \in Matrices(n, input_shape, SelLevels) : ret' = [gen_prob |-> p]
          /\ pc' = "returned" /\ UNCHANGED err
     ELSE /\ Raise("AttributeError") /\ UNCHANGED ret
  /\ method' = "output"
  /\ UNCHANGED <<caller, ctor_rows, obj, nets, args, epoch, locals, calls, stdout>>

\* get_prediction(x_train, m_train), lines 195-201
GetPrediction(n) ==
  /\ pc \in {"constructed", "trained"}
  /\ IF HasAttr("valfunction") /\ HasAttr("discriminator")
     THEN /\ \E v \in [1..n -> {ClassRow(k) : k \in BaseLevels}],
                p \in [1..n -> {ClassRow(k) : k \in PredLevels}] :
               ret' = [val_prediction |-> v, dis_prediction |-> p]
          /\ pc' = "returned" /\ UNCHANGED err
     ELSE /\ Raise("AttributeError") /\ UNCHANGED ret
  /\ method' = "get_prediction"
  /\ UNCHANGED <<caller, ctor_rows, obj, nets, args, epoch, locals, calls, stdout>>

TrainStep ==
  \/ LoopHead \/ SelectBatch \/ QuerySelector \/ SampleMask \/ QueryPredictor
  \/ TrainPredictor \/ QueryBaseline \/ TrainBaseline \/ TrainSelector \/ Progress

Next ==
  \/ \E c \in {"main", "api"}, n0 \in (1..MaxRows) \cup BigRows, d \in 1..MaxDim,
        ne \in {0, 1, MaxEpoch}, log \in BOOLEAN : Construct(c, n0, d, ne, log)
  \/ \E n \in 1..MaxRows : TrainCall(n)
  \/ TrainStep
  \/ \E n \in 1..MaxRows : Output(n)
  \/ \E n \in 1..MaxRows : GetPrediction(n)

Spec == Init /\ [][Next]_vars

\* -------------------------------------------------- the loss as a function
\* my_loss on its own: every composite target of a small batch, with the
\* selector's output as y_pred (as train_on_batch supplies it).
LossInit ==
  /\ pc = "loss" /\ caller = "api" /\ method = "my_loss" /\ err = "none"
  /\ ctor_rows = 0 /\ attrs = InitAttrs
  /\ is_logging_enabled = FALSE /\ epochs = 0
  /\ selector = Build(Net0) /\ predictor = Build(Net0) /\ baseline = Build(Net0)
  /\ x_train = None /\ y_train = None /\ epoch = -1
  /\ idx = None /\ x_batch = None /\ sel_mask = None /\ sel_feat = None
  /\ \E n \in 1..MaxRows, d \in 1..MaxDim :
       /\ n * (d + 3 * NClass) <= MaxTarget
       /\ batch_size = n /\ input_shape = d
       /\ sel_prob \in Matrices(n, d, SelLevels)
       /\ dis_prob \in [1..n -> {ClassRow(k) : k \in AltLevels}]
       /\ val_prob \in [1..n -> {ClassRow(k) : k \in AltLevels}]
       /\ y_batch \in [1..n -> {OneHot(c) : c \in 1..NClass}]
  /\ y_batch_final = Concatenate(sel_prob, dis_prob, val_prob, y_batch)
  /\ g_loss = 0
  /\ calls = <<>> /\ stdout = <<>> /\ ret = None

LossApply ==
  /\ pc = "loss"
  /\ g_loss' = my_loss(y_batch_final, sel_prob)
  /\ pc' = "loss_done"
  /\ UNCHANGED <<caller, method, err, ctor_rows, obj, nets, args, epoch, idx, x_batch,
                 y_batch, sel_prob, sel_mask, sel_feat, dis_prob, val_prob,
                 y_batch_final, calls, stdout, ret>>

LossNext == LossApply

LossSpec == LossInit /\ [][LossNext]_vars

\* ================================================================== claims
TrainPcs == {"batch", "sel_predict", "sample", "dis_predict", "dis_train",
             "val_predict", "val_train", "sel_train", "progress"}

StepOrder ==
  << <<"selector", "predict">>, <<"sampler", "Sample_M">>,
     <<"predictor", "predict">>, <<"predictor", "train_on_batch">>,
     <<"baseline", "predict">>, <<"baseline", "train_on_batch">>,
     <<"selector", "train_on_batch">> >>

\* C1: within a training step the calls are made in the order selector
\* predict, Sample_M, predictor predict, predictor train_on_batch, baseline
\* predict, baseline train_on_batch, selector train_on_batch; the predictor
\* and baseline outputs in the composite target are those returned by the
\* predict calls made before the respective update of the same step, and the
\* selector is updated after both other networks.
C1_StepOrder ==
  /\ Len(calls) <= Len(StepOrder)
  /\ \A i \in 1..Len(calls) : <<calls[i].net, calls[i].op>> = StepOrder[i]
  /\ pc = "progress" =>
       /\ Len(calls) = Len(StepOrder)
       /\ \A i \in 1..batch_size :
            LET s == SplitRow(calls[7].y[i], input_shape)
            IN  /\ s.dis_prob = calls[3].out[i]
                /\ s.val_prob = calls[5].out[i]
       /\ calls[3].ver = epoch /\ calls[4].ver = epoch
       /\ calls[5].ver = epoch /\ calls[6].ver = epoch
       /\ calls[1].ver = epoch /\ calls[7].ver = epoch
       /\ predictor.updates = epoch + 1
       /\ baseline.updates = epoch + 1
       /\ selector.updates = epoch + 1
  /\ pc = "sel_train" =>
       /\ predictor.updates = epoch + 1
       /\ baseline.updates = epoch + 1
       /\ selector.updates = epoch

C1_Witness ==
  /\ pc = "progress" /\ epoch = 1 /\ Len(calls) = 7
  /\ calls[3].out = dis_prob /\ predictor.updates = 2

\* C2 (as stated): an inference call made after construction returns its
\* result without raising.
C2_InferenceSucceeds ==
  method \in {"output", "get_prediction"} => pc = "returned" /\ err = "none"

\* C3: the batch size is min(1000, rows given to the constructor), so it
\* never exceeds that data set and equals its size below 1000 rows; each
\* step draws exactly batch_size indices, each in [0, n) for the n rows of
\* the data set given to train().
C3_BatchSize ==
  /\ attrs # {} =>
       /\ batch_size <= BatchCap
       /\ batch_size <= ctor_rows
       /\ ctor_rows < BatchCap => batch_size = ctor_rows
       /\ ctor_rows >= BatchCap => batch_size = BatchCap
  /\ pc \in TrainPcs \ {"batch"} =>
       /\ Len(idx) = batch_size
       /\ \A i \in 1..Len(idx) : idx[i] >= 0 /\ idx[i] < Len(x_train)
       /\ Len(x_batch) = batch_size /\ Len(y_batch) = batch_size

C3_Witness ==
  /\ pc = "sel_predict" /\ ctor_rows = 2 /\ Len(x_train) = 1
  /\ idx = <<0, 0>>

\* C4: the sampled mask has the shape of the selection probabilities and
\* entries in {0, 1}; probability 0 gives 0 and probability 1 gives 1.
C4_MaskBinary ==
  sel_mask # None =>
    /\ Len(sel_mask) = Len(sel_prob)
    /\ \A i \in 1..Len(sel_prob) :
         /\ Len(sel_mask[i]) = Len(sel_prob[i])
         /\ \A j \in 1..Len(sel_prob[i]) :
              /\ sel_mask[i][j] \in {0, 1}
              /\ sel_prob[i][j] = 0 => sel_mask[i][j] = 0
              /\ sel_prob[i][j] = SelOne => sel_mask[i][j] = 1

C4_Witness ==
  /\ pc = "dis_predict" /\ batch_size = 2 /\ input_shape = 2
  /\ sel_prob = << <<0, 0>>, <<SelOne, SelOne>> >>
  /\ sel_mask = << <<0, 0>>, <<1, 1>> >>

\* C5: the composite target has d + 6 columns, and the slices my_loss takes
\* of it are the step's selector output, predictor output, baseline output
\* and the batch's labels.
C5_TargetRoundTrip ==
  pc = "progress" =>
    /\ Len(y_batch_final) = batch_size
    /\ \A i \in 1..batch_size :
         LET s == SplitRow(y_batch_final[i], Len(sel_prob[i]))
         IN  /\ Len(y_batch_final[i]) = input_shape + 6
             /\ s.sel_prob = sel_prob[i] /\ sel_prob[i] = calls[1].out[i]
             /\ s.dis_prob = dis_prob[i] /\ dis_prob[i] = calls[3].out[i]
             /\ s.val_prob = val_prob[i] /\ val_prob[i] = calls[5].out[i]
             /\ s.y_final = y_batch[i] /\ y_batch[i] = y_train[idx[i] + 1]

C5_Witness ==
  /\ pc = "progress" /\ input_shape = 2 /\ batch_size = 2
  /\ dis_prob[1] # val_prob[1] /\ y_batch[1] # y_batch[2]
  /\ Len(y_batch_final[1]) = 8

\* reward1 - reward2 of row i of a batch
RewardDiff(dp, vp, yb, i) == Reward(yb[i], dp[i]) - Reward(yb[i], vp[i])

\* C6: with the selector output, sel_prob and labels fixed, predictor and
\* baseline outputs that give every example the same reward1 - reward2 give
\* the same loss.
C6_LossDependsOnDifference ==
  pc = "loss_done" =>
    \A dp, vp \in [1..batch_size -> {ClassRow(k) : k \in AltLevels}] :
      (\A i \in 1..batch_size :
         RewardDiff(dp, vp, y_batch, i) = RewardDiff(dis_prob, val_prob, y_batch, i))
      => my_loss(Concatenate(sel_prob, dp, vp, y_batch), sel_prob) = g_loss

C6_Witness ==
  /\ pc = "loss_done" /\ batch_size = 2
  /\ dis_prob = <<ClassRow(2), ClassRow(4)>> /\ val_prob = <<ClassRow(4), ClassRow(4)>>
  /\ y_batch = <<OneHot(1), OneHot(2)>>
  /\ RewardDiff(<<ClassRow(1), ClassRow(2)>>, <<ClassRow(2), ClassRow(2)>>, y_batch, 1)
       = RewardDiff(dis_prob, val_prob, y_batch, 1)
  /\ RewardDiff(dis_prob, val_prob, y_batch, 1) # 0
  /\ g_loss # 0

\* C7: the predictor is queried and updated on the masked batch only, the
\* baseline on the unmasked batch only, whatever the mask; both are trained
\* against the labels of the batch.
C7_MaskedVersusFull ==
  pc \in TrainPcs =>
    \A k \in 1..Len(calls) :
      /\ calls[k].net = "predictor" =>
           /\ calls[k].x = Multiply(Gather(x_train, idx), sel_mask)
           /\ \A i \in 1..batch_size : \A j \in 1..input_shape :
                sel_mask[i][j] = 0 => calls[k].x[i][j] = 0
      /\ calls[k].net = "baseline" => calls[k].x = Gather(x_train, idx)
      /\ (calls[k].net \in {"predictor", "baseline"} /\ calls[k].op = "train_on_batch")
           => calls[k].y = Gather(y_train, idx)

C7_Witness ==
  /\ pc = "sel_train" /\ batch_size = 2 /\ input_shape = 2
  /\ sel_mask = << <<0, 1>>, <<1, 0>> >>
  /\ calls[4].x # calls[6].x

\* position of a pc within train(), and the number of steps train() still
\* has to take
PcRank ==
  [batch |-> 1, sel_predict |-> 2, sample |-> 3, dis_predict |-> 4, dis_train |-> 5,
   val_predict |-> 6, val_train |-> 7, sel_train |-> 8, progress |-> 9, loop |-> 10,
   trained |-> 11]

StepsLeft == (epochs - epoch) * 11 - PcRank[pc]

C8_Counts ==
  /\ \A net \in {selector, predictor, baseline} :
       /\ net.built = (IF attrs = {} THEN 0 ELSE 1)
       /\ net.updates <= epochs
  /\ epoch < epochs
  /\ pc = "loop" =>
       selector.updates = epoch + 1 /\ predictor.updates = epoch + 1
         /\ baseline.updates = epoch + 1
  /\ (method = "train" /\ pc = "trained") =>
       /\ epoch + 1 = epochs
       /\ selector.updates = epochs /\ predictor.updates = epochs
       /\ baseline.updates = epochs

C8_Decreases ==
  pc \in TrainPcs \cup {"loop"} =>
    /\ pc' \in TrainPcs \cup {"loop", "trained"}
    /\ StepsLeft' < StepsLeft /\ StepsLeft' >= 0

\* C8: the networks are built once; every step updates each network once,
\* the loop never runs more than n_epoch steps, every step of train() brings
\* its return nearer, and when train() returns each network has had exactly
\* n_epoch updates (none for n_epoch = 0).
C8_ExactlyNEpochUpdates == [](C8_Counts) /\ [][C8_Decreases]_vars

C8_Witness ==
  /\ method = "train" /\ pc = "trained" /\ epochs = 2
  /\ selector.updates = 2 /\ predictor.updates = 2 /\ baseline.updates = 2

\* C9 (as stated): the entry point constructs the object without a fatal
\* error.
C9_MainConstructs == caller = "main" => pc # "raised"

\* C10 (as stated): a progress line for step k is printed if and only if
\* logging is enabled and k is a multiple of 100.
C10_ProgressIffLogging ==
  \A k \in 0..epoch :
    (k < epoch \/ pc \in {"loop", "trained"}) =>
      ((\E i \in 1..Len(stdout) : stdout[i] = k)
         <=> (is_logging_enabled /\ k % LogEvery = 0))

====
